---- MODULE Spec2Model ----
(***************************************************************************)
(* The recipe API: three token-authenticated viewsets (tags, ingredients,  *)
(* recipes) over three tables.  One action per HTTP operation; the         *)
(* database rows, the request being answered and its response are the      *)
(* state.                                                                  *)
(***************************************************************************)
EXTENDS Integers, Sequences, FiniteSets, TLC

\* ------------------------------------------------------------------ bounds
MaxTags == 2
MaxIngredients == 1
MaxRecipes == 2
MaxRecords == 2

\* ------------------------------------------------------------ value spaces
Users == {1, 2}
NoUser == 0
Clients == Users \cup {NoUser}

Names == {"a", "b"}
EmptyName == ""
Titles == {"a", "b"}

SampleTimeMinutes == 10
SamplePrice == 5
UpdateTimeMinutes == 25
NoLink == ""
NoImage == "none"
Files == {"jpeg", "notimage"}

\* Ids are assigned from 1; the id after the last one names no row.
TagIds == 1..(MaxTags + 1)
IngredientIds == 1..(MaxIngredients + 1)
RecipeIds == 1..(MaxRecipes + 1)

AttrEndpoints == {"tags", "ingredients"}

\* Lexicographic rank of the strings used as names and titles.
Ord(s) == CASE s = "" -> 0 [] s = "a" -> 1 [] s = "b" -> 2

VARIABLES tags, ingredients, recipes, nextId, req, res

vars == <<tags, ingredients, recipes, nextId, req, res>>

\* ------------------------------------------------------- request / response
NoPayload == [fields |-> {}]
NoParams == [tags |-> {}, ingredients |-> {}]
NoReq == [user |-> NoUser, endpoint |-> "none", action |-> "none", id |-> 0,
          payload |-> NoPayload, params |-> NoParams, file |-> "none"]
NoRes == [status |-> 0, data |-> <<>>]

Request(u, e, a, i, p, q, f) ==
    [user |-> u, endpoint |-> e, action |-> a, id |-> i,
     payload |-> p, params |-> q, file |-> f]

Response(s, d) == [status |-> s, data |-> d]

HTTP_200_OK == 200
HTTP_201_CREATED == 201
HTTP_204_NO_CONTENT == 204
HTTP_400_BAD_REQUEST == 400
HTTP_401_UNAUTHORIZED == 401
HTTP_404_NOT_FOUND == 404
HTTP_500_INTERNAL_SERVER_ERROR == 500

\* No request is being answered.
Idle == req = NoReq

\* ------------------------------------------------------------- the viewsets
\* BaseRecipeAttrViewSet mixes in ListModelMixin and CreateModelMixin only.
AttrActions == {"list", "create"}

\* RecipeViewSet is a ModelViewSet and declares no extra action.
RecipeActions == {"list", "create", "retrieve", "update", "partial_update", "destroy"}

DetailActions == {"retrieve", "update", "partial_update", "destroy"}

\* permission_classes = (AllowAny,)
AllowAny(u) == TRUE

\* permission_classes = (IsAuthenticated,)
IsAuthenticated(u) == u # NoUser

Table(e) == IF e = "tags" THEN tags ELSE ingredients

\* A queryset with no owner filter.
FilterNone(rows, u) == rows

\* queryset.filter(user=request.user)
FilterUser(rows, u) == {o \in rows : o.user = u}

\* The orders a database may return rows in for ORDER BY key DESC: every
\* permutation of the rows whose keys never increase.  Rows with equal keys
\* come in an order the query does not fix.
OrderByDesc(rows, key) ==
    LET n == Cardinality(rows)
    IN  {s \in [1..n -> rows] :
            /\ \A i, j \in 1..n : i # j => s[i] # s[j]
            /\ \A i \in 1..n : i < n => Ord(s[i][key]) >= Ord(s[i + 1][key])}

\* BaseRecipeAttrViewSet.get_queryset
AttrGetQueryset(e, u) == OrderByDesc(FilterUser(Table(e), u), "name")

\* RecipeViewSet.get_queryset: the query parameters are not read.
RecipeFilter(rows, q) == rows
RecipeGetQueryset(u, q) ==
    OrderByDesc(RecipeFilter(FilterUser(recipes, u), q), "title")

\* ------------------------------------------------------------- serializers
SerializeAttr(o) == [id |-> o.id, name |-> o.name]

SerializeRecipe(r) ==
    [id |-> r.id, title |-> r.title, time_minutes |-> r.time_minutes,
     price |-> r.price, link |-> r.link, tags |-> r.tags,
     ingredients |-> r.ingredients]

SerializeRecipeDetail(r) ==
    [id |-> r.id, title |-> r.title, time_minutes |-> r.time_minutes,
     price |-> r.price, link |-> r.link,
     tags |-> {SerializeAttr(t) : t \in {x \in tags : x.id \in r.tags}},
     ingredients |->
        {SerializeAttr(t) : t \in {x \in ingredients : x.id \in r.ingredients}}]

SerializeAttrs(s) == [i \in DOMAIN s |-> SerializeAttr(s[i])]

SerializeRecipes(s) == [i \in DOMAIN s |-> SerializeRecipe(s[i])]

\* Tag and Ingredient payloads: a name, and optionally a user the client names
\* as owner (NoUser when the payload has no such key).
AttrPayloads == [name : Names \cup {EmptyName}, user : Clients]

\* TagSerializer / IngredientSerializer: the name may not be blank.
AttrValid(p) == p.name # EmptyName

\* Recipe payloads: `fields` are the keys present in the payload.
FullFields == {"title", "time_minutes", "price"}
RecipePayload(F, t, tg, ig) ==
    [fields |-> F,
     title |-> IF "title" \in F THEN t ELSE "",
     time_minutes |-> IF "time_minutes" \in F THEN UpdateTimeMinutes ELSE 0,
     price |-> IF "price" \in F THEN SamplePrice ELSE 0,
     tags |-> IF "tags" \in F THEN tg ELSE {},
     ingredients |-> IF "ingredients" \in F THEN ig ELSE {}]

PayloadsOver(FS) ==
    {RecipePayload(F, t, tg, ig) :
        F \in FS, t \in Titles, tg \in SUBSET TagIds, ig \in SUBSET IngredientIds}

\* The id sets a client sends: any of the stored rows' ids, or an id that
\* names no row.
IdSets(rows, unused) == (SUBSET {o.id : o \in rows}) \cup {{unused}}

Sendable(p) ==
    /\ p.tags \in IdSets(tags, nextId.tags)
    /\ p.ingredients \in IdSets(ingredients, nextId.ingredients)

\* Payloads of POST and PUT: every required field, with or without tags, and
\* one that lacks the title.
FullPayloads ==
    PayloadsOver({FullFields, FullFields \cup {"tags"}, {"time_minutes", "price"}})

\* Payloads of PATCH: some of the fields.
PartialPayloads ==
    PayloadsOver({{"title", "tags"}, {"tags"}, {"ingredients"}, {"time_minutes", "price"}})

\* RecipeSerializer validation: title, time_minutes and price are required
\* unless the update is partial; every related id must name an existing row.
RecipeValid(p, partial) ==
    /\ partial \/ FullFields \subseteq p.fields
    /\ p.tags \subseteq {t.id : t \in tags}
    /\ p.ingredients \subseteq {t.id : t \in ingredients}

\* An update that leaves an omitted relation alone, full or partial.
NeverClears(partial) == FALSE

\* ModelSerializer.update: the fields of the payload replace the row's; a full
\* update with no tags (ingredients) key clears the relation, a partial
\* update leaves it.
ClearsOmitted(partial) == ~partial

RecipeApply(r, p, partial) ==
    [r EXCEPT
        !.title = IF "title" \in p.fields THEN p.title ELSE @,
        !.time_minutes = IF "time_minutes" \in p.fields THEN p.time_minutes ELSE @,
        !.price = IF "price" \in p.fields THEN p.price ELSE @,
        !.tags = IF "tags" \in p.fields THEN p.tags
                 ELSE IF ClearsOmitted(partial) THEN {} ELSE @,
        !.ingredients = IF "ingredients" \in p.fields THEN p.ingredients
                        ELSE IF ClearsOmitted(partial) THEN {} ELSE @]

NewRecipe(i, u, t, tm, pr, tg, ig) ==
    [id |-> i, user |-> u, title |-> t, time_minutes |-> tm, price |-> pr,
     link |-> NoLink, image |-> NoImage, tags |-> tg, ingredients |-> ig]

\* ---------------------------------------------------------------- Init
Init ==
    /\ tags = {}
    /\ ingredients = {}
    /\ recipes = {}
    /\ nextId = [tags |-> 1, ingredients |-> 1, recipes |-> 1]
    /\ req = NoReq
    /\ res = NoRes

MaxRows(e) == IF e = "tags" THEN MaxTags ELSE MaxIngredients

\* Rows inserted so far, over the three tables.
Inserted == (nextId.tags - 1) + (nextId.ingredients - 1) + (nextId.recipes - 1)

SetTable(e, rows) ==
    /\ tags' = IF e = "tags" THEN rows ELSE tags
    /\ ingredients' = IF e = "ingredients" THEN rows ELSE ingredients

Reply(r, s, d) ==
    /\ req' = r
    /\ res' = Response(s, d)

\* ------------------------------------------------- Tag / Ingredient endpoints
\* GET /tags/, GET /ingredients/
AttrList(e, u) ==
    /\ Idle
    /\ IF ~IsAuthenticated(u)
       THEN Reply(Request(u, e, "list", 0, NoPayload, NoParams, "none"),
                  HTTP_401_UNAUTHORIZED, <<>>)
       ELSE \E rows \in AttrGetQueryset(e, u) :
                Reply(Request(u, e, "list", 0, NoPayload, NoParams, "none"),
                      HTTP_200_OK, SerializeAttrs(rows))
    /\ UNCHANGED <<tags, ingredients, recipes, nextId>>

\* serializer.save() with the owner taken from the payload when it names one.
AttrPerformCreateFromPayload(u, p) == IF p.user # NoUser THEN p.user ELSE u

\* BaseRecipeAttrViewSet.perform_create: serializer.save(user=request.user)
AttrPerformCreate(u, p) == u

\* update_or_create on the name: a row of that name is replaced.
AttrUpsertByName(rows, o) == {x \in rows : x.name # o.name} \cup {o}

AttrInsert(rows, o) == rows \cup {o}

\* POST /tags/, POST /ingredients/
AttrCreate(e, u, p) ==
    LET r == Request(u, e, "create", 0, p, NoParams, "none")
        o == [id |-> nextId[e], name |-> p.name, user |-> AttrPerformCreate(u, p)]
    IN  /\ Idle
        /\ IF ~IsAuthenticated(u)
           THEN /\ Reply(r, HTTP_401_UNAUTHORIZED, <<>>)
                /\ UNCHANGED <<tags, ingredients, nextId>>
           ELSE IF ~AttrValid(p)
           THEN /\ Reply(r, HTTP_400_BAD_REQUEST, <<>>)
                /\ UNCHANGED <<tags, ingredients, nextId>>
           ELSE /\ nextId[e] <= MaxRows(e)
                /\ Inserted < MaxRecords
                /\ SetTable(e, AttrInsert(Table(e), o))
                /\ nextId' = [nextId EXCEPT ![e] = @ + 1]
                /\ Reply(r, HTTP_201_CREATED, <<SerializeAttr(o)>>)
        /\ UNCHANGED recipes

\* Any other verb on a tag or ingredient: the viewset has no such action, so
\* the router has no route for it.
AttrNoRoute(e, u, a, i) ==
    /\ Idle
    /\ a \notin AttrActions
    /\ Reply(Request(u, e, a, i, NoPayload, NoParams, "none"),
             HTTP_404_NOT_FOUND, <<>>)
    /\ UNCHANGED <<tags, ingredients, recipes, nextId>>

\* ------------------------------------------------------------ Recipe endpoint
\* get_object over Recipe.objects.all().
GetObjectAnyOwner(u, i) == {r \in recipes : r.id = i}

\* GenericAPIView.get_object: the row with this id in get_queryset(), if any.
GetObject(u, i) == {r \in FilterUser(recipes, u) : r.id = i}

\* GET /recipes/?tags=..&ingredients=..
RecipeList(u, q) ==
    LET r == Request(u, "recipes", "list", 0, NoPayload, q, "none")
    IN  /\ Idle
        /\ IF ~IsAuthenticated(u)
           THEN Reply(r, HTTP_401_UNAUTHORIZED, <<>>)
           ELSE \E rows \in RecipeGetQueryset(u, q) :
                    Reply(r, HTTP_200_OK, SerializeRecipes(rows))
        /\ UNCHANGED <<tags, ingredients, recipes, nextId>>

\* GET /recipes/<id>/
RecipeRetrieve(u, i) ==
    LET r == Request(u, "recipes", "retrieve", i, NoPayload, NoParams, "none")
    IN  /\ Idle
        /\ IF ~IsAuthenticated(u)
           THEN Reply(r, HTTP_401_UNAUTHORIZED, <<>>)
           ELSE IF GetObject(u, i) = {}
           THEN Reply(r, HTTP_404_NOT_FOUND, <<>>)
           ELSE \E o \in GetObject(u, i) :
                    Reply(r, HTTP_200_OK, <<SerializeRecipeDetail(o)>>)
        /\ UNCHANGED <<tags, ingredients, recipes, nextId>>

\* RecipeViewSet does not override perform_create: CreateModelMixin's
\* serializer.save() passes no user.
RecipePerformCreate(u, p) == NoUser

\* POST /recipes/
RecipeCreate(u, p) ==
    LET r == Request(u, "recipes", "create", 0, p, NoParams, "none")
        owner == RecipePerformCreate(u, p)
        o == NewRecipe(nextId.recipes, owner, p.title, p.time_minutes, p.price,
                       p.tags, p.ingredients)
    IN  /\ Idle
        /\ IF ~IsAuthenticated(u)
           THEN /\ Reply(r, HTTP_401_UNAUTHORIZED, <<>>)
                /\ UNCHANGED <<recipes, nextId>>
           ELSE IF ~RecipeValid(p, FALSE)
           THEN /\ Reply(r, HTTP_400_BAD_REQUEST, <<>>)
                /\ UNCHANGED <<recipes, nextId>>
           ELSE IF owner = NoUser
           THEN \* Recipe.user is a required foreign key: the INSERT fails.
                /\ Reply(r, HTTP_500_INTERNAL_SERVER_ERROR, <<>>)
                /\ UNCHANGED <<recipes, nextId>>
           ELSE /\ nextId.recipes <= MaxRecipes
                /\ Inserted < MaxRecords
                /\ recipes' = recipes \cup {o}
                /\ nextId' = [nextId EXCEPT !.recipes = @ + 1]
                /\ Reply(r, HTTP_201_CREATED, <<SerializeRecipe(o)>>)
        /\ UNCHANGED <<tags, ingredients>>

\* PUT /recipes/<id>/ (partial = FALSE), PATCH /recipes/<id>/ (partial = TRUE)
RecipeWrite(u, i, p, partial) ==
    LET r == Request(u, "recipes", IF partial THEN "partial_update" ELSE "update",
                     i, p, NoParams, "none")
    IN  /\ Idle
        /\ IF ~IsAuthenticated(u)
           THEN /\ Reply(r, HTTP_401_UNAUTHORIZED, <<>>)
                /\ UNCHANGED recipes
           ELSE IF GetObject(u, i) = {}
           THEN /\ Reply(r, HTTP_404_NOT_FOUND, <<>>)
                /\ UNCHANGED recipes
           ELSE IF ~RecipeValid(p, partial)
           THEN /\ Reply(r, HTTP_400_BAD_REQUEST, <<>>)
                /\ UNCHANGED recipes
           ELSE \E o \in GetObject(u, i) :
                    /\ recipes' = (recipes \ {o}) \cup {RecipeApply(o, p, partial)}
                    /\ Reply(r, HTTP_200_OK,
                             <<SerializeRecipe(RecipeApply(o, p, partial))>>)
        /\ UNCHANGED <<tags, ingredients, nextId>>

RecipeUpdate(u, i, p) == RecipeWrite(u, i, p, FALSE)

RecipePartialUpdate(u, i, p) == RecipeWrite(u, i, p, TRUE)

\* DELETE /recipes/<id>/
RecipeDestroy(u, i) ==
    LET r == Request(u, "recipes", "destroy", i, NoPayload, NoParams, "none")
    IN  /\ Idle
        /\ IF ~IsAuthenticated(u)
           THEN /\ Reply(r, HTTP_401_UNAUTHORIZED, <<>>)
                /\ UNCHANGED recipes
           ELSE IF GetObject(u, i) = {}
           THEN /\ Reply(r, HTTP_404_NOT_FOUND, <<>>)
                /\ UNCHANGED recipes
           ELSE /\ recipes' = recipes \ GetObject(u, i)
                /\ Reply(r, HTTP_204_NO_CONTENT, <<>>)
        /\ UNCHANGED <<tags, ingredients, nextId>>

\* POST /recipes/<id>/upload-image/: RecipeViewSet declares no upload_image
\* action, so the router has no such route.
RecipeUploadImage(u, i, f) ==
    /\ Idle
    /\ "upload_image" \notin RecipeActions
    /\ Reply(Request(u, "recipes", "upload_image", i, NoPayload, NoParams, f),
             HTTP_404_NOT_FOUND, <<>>)
    /\ UNCHANGED <<tags, ingredients, recipes, nextId>>

\* ------------------------------------------------------------------- the ORM
\* sample_recipe(user, title=..): Recipe.objects.create(user=user, **defaults)
SampleRecipe(u, t) ==
    /\ Idle
    /\ nextId.recipes <= MaxRecipes
    /\ Inserted < MaxRecords
    /\ recipes' = recipes \cup
            {NewRecipe(nextId.recipes, u, t, SampleTimeMinutes, SamplePrice, {}, {})}
    /\ nextId' = [nextId EXCEPT !.recipes = @ + 1]
    /\ UNCHANGED <<tags, ingredients, req, res>>

\* The response is delivered; the server is ready for the next request.
Respond ==
    /\ ~Idle
    /\ req' = NoReq
    /\ res' = NoRes
    /\ UNCHANGED <<tags, ingredients, recipes, nextId>>

Params == [tags : SUBSET TagIds, ingredients : SUBSET IngredientIds]

\* The ids a client addresses: a stored row's, or one that names no row.
Targets(rows, unused) == {o.id : o \in rows} \cup {unused}

\* A request is taken up once the previous response has been delivered.
Next ==
    \/ Idle /\ \E e \in AttrEndpoints, u \in Clients : AttrList(e, u)
    \/ Idle /\ \E e \in AttrEndpoints, u \in Clients, p \in AttrPayloads :
          AttrCreate(e, u, p)
    \/ Idle /\ \E e \in AttrEndpoints, u \in Clients, a \in DetailActions :
          \E i \in Targets(Table(e), nextId[e]) : AttrNoRoute(e, u, a, i)
    \/ Idle /\ \E q \in Params : Sendable(q) /\ \E u \in Clients : RecipeList(u, q)
    \/ Idle /\ \E i \in Targets(recipes, nextId.recipes), u \in Clients :
          RecipeRetrieve(u, i)
    \/ Idle /\ \E p \in FullPayloads : Sendable(p) /\
          \E u \in Clients : RecipeCreate(u, p)
    \/ Idle /\ \E p \in FullPayloads : Sendable(p) /\
          \E i \in Targets(recipes, nextId.recipes), u \in Clients :
              RecipeUpdate(u, i, p)
    \/ Idle /\ \E p \in PartialPayloads : Sendable(p) /\
          \E i \in Targets(recipes, nextId.recipes), u \in Clients :
              RecipePartialUpdate(u, i, p)
    \/ Idle /\ \E i \in Targets(recipes, nextId.recipes), u \in Clients :
          RecipeDestroy(u, i)
    \/ Idle /\ \E i \in Targets(recipes, nextId.recipes), u \in Clients, f \in Files :
          RecipeUploadImage(u, i, f)
    \/ Idle /\ \E u \in Users, t \in Titles : SampleRecipe(u, t)
    \/ Respond

Spec == Init /\ [][Next]_vars

\* ==================================================================== claims
Rows(e) == IF e = "recipes" THEN recipes ELSE Table(e)

Serialized(e, o) == IF e = "recipes" THEN SerializeRecipe(o) ELSE SerializeAttr(o)

Range(s) == {s[i] : i \in DOMAIN s}

\* The step just taken answered a request.
Handled == req' # NoReq

DbUnchanged ==
    /\ tags' = tags
    /\ ingredients' = ingredients
    /\ recipes' = recipes

\* C1: a list request on the tag, ingredient or recipe endpoint by an
\* authenticated user, with no filter parameters, is answered with exactly the
\* rows that user owns: none of another user's, none of the user's missing,
\* none twice.
C1_ListReturnsExactlyOwned ==
    (req.action = "list" /\ req.user \in Users /\ req.params = NoParams) =>
        /\ res.status = HTTP_200_OK
        /\ Range(res.data) =
              {Serialized(req.endpoint, o) :
                  o \in {x \in Rows(req.endpoint) : x.user = req.user}}
        /\ Len(res.data) =
              Cardinality({x \in Rows(req.endpoint) : x.user = req.user})

C1_Witness ==
    /\ req.action = "list"
    /\ req.endpoint = "recipes"
    /\ req.params = NoParams
    /\ res.status = HTTP_200_OK
    /\ Len(res.data) = 1
    /\ \E r \in recipes : r.user # req.user

\* C2: a request with no authenticated identity to a routed action of the tag,
\* ingredient or recipe endpoint is answered 401 with no records, and no row
\* of any table changes.
Routed(r) ==
    IF r.endpoint = "recipes" THEN r.action \in RecipeActions
    ELSE r.action \in AttrActions

C2_UnauthenticatedIs401 ==
    [][(Handled /\ req'.user = NoUser /\ Routed(req')) =>
          /\ res'.status = HTTP_401_UNAUTHORIZED
          /\ res'.data = <<>>
          /\ DbUnchanged]_vars

C2_Witness ==
    /\ req.user = NoUser
    /\ req.endpoint = "recipes"
    /\ req.action = "destroy"
    /\ res.status = HTTP_401_UNAUTHORIZED
    /\ \E r \in recipes : r.id = req.id

\* C3: a successful create on the tag or ingredient endpoint by user U adds
\* exactly one row, owned by U whatever owner the payload names; the row is in
\* every list U can then be given and in no list of another user.
C3_AttrCreateOwnedByRequester ==
    [][\A e \in AttrEndpoints :
        (Handled /\ req'.action = "create" /\ req'.endpoint = e
            /\ res'.status = HTTP_201_CREATED) =>
          \E o \in Table(e)' :
              /\ o \notin Table(e)
              /\ Table(e)' = Table(e) \cup {o}
              /\ o.user = req'.user
              /\ o.name = req'.payload.name
              /\ res'.data = <<SerializeAttr(o)>>
              /\ \A d \in AttrEndpoints \ {e} : Table(d)' = Table(d)
              /\ recipes' = recipes
              /\ \A u \in Users : \A l \in AttrGetQueryset(e, u)' :
                      (o \in Range(l)) <=> (u = req'.user)]_vars

C3_Witness ==
    /\ req.action = "create"
    /\ req.endpoint = "tags"
    /\ res.status = HTTP_201_CREATED
    /\ req.payload.user \in Users \ {req.user}
    /\ \E t \in tags : t.id = res.data[1].id /\ t.user = req.user
    /\ \E t \in tags : t.user # req.user

\* C4: a create on the recipe endpoint by authenticated user U with a valid
\* payload is answered 201 and stores a new recipe owned by U whose fields and
\* tag and ingredient sets are the payload's.
C4_RecipeCreateStoresOwned ==
    (req.action = "create" /\ req.endpoint = "recipes" /\ req.user \in Users
        /\ RecipeValid(req.payload, FALSE)) =>
        /\ res.status = HTTP_201_CREATED
        /\ \E r \in recipes :
              /\ res.data = <<SerializeRecipe(r)>>
              /\ r.user = req.user
              /\ r.title = req.payload.title
              /\ r.time_minutes = req.payload.time_minutes
              /\ r.price = req.payload.price
              /\ r.tags = req.payload.tags
              /\ r.ingredients = req.payload.ingredients

\* C5: a recipe list with a tags (ingredients) parameter returns exactly the
\* requester's recipes that have at least one of the listed tags
\* (ingredients).
Matches(r, q) ==
    /\ q.tags = {} \/ r.tags \cap q.tags # {}
    /\ q.ingredients = {} \/ r.ingredients \cap q.ingredients # {}

C5_FilterByTagsOrIngredients ==
    (req.action = "list" /\ req.endpoint = "recipes" /\ req.user \in Users
        /\ req.params # NoParams) =>
        Range(res.data) =
            {SerializeRecipe(r) :
                r \in {x \in recipes : x.user = req.user /\ Matches(x, req.params)}}

\* C6: a PUT whose payload has no tags key leaves the recipe with no tags; a
\* PATCH replaces the fields and relations its payload has and leaves every
\* other field and relation of the recipe, and every other recipe, as it was.
PayloadFields == {"title", "time_minutes", "price", "tags", "ingredients"}

C6_FullUpdateClearsPartialKeeps ==
    [][\A i \in RecipeIds :
        (Handled /\ req'.endpoint = "recipes" /\ req'.id = i
            /\ req'.action \in {"update", "partial_update"}
            /\ res'.status = HTTP_200_OK) =>
          \E old \in recipes : \E new \in recipes' :
              /\ old.id = i /\ new.id = i
              /\ recipes' \ {new} = recipes \ {old}
              /\ new.user = old.user /\ new.link = old.link /\ new.image = old.image
              /\ \A f \in req'.payload.fields : new[f] = req'.payload[f]
              /\ (req'.action = "update" /\ "tags" \notin req'.payload.fields) =>
                    new.tags = {}
              /\ req'.action = "partial_update" =>
                    \A f \in PayloadFields \ req'.payload.fields : new[f] = old[f]]_vars

C6_Witness ==
    /\ req.endpoint = "recipes"
    /\ req.action = "update"
    /\ res.status = HTTP_200_OK
    /\ "tags" \notin req.payload.fields
    /\ tags # {}
    /\ \E r \in recipes : r.id = req.id /\ r.tags = {} /\ r.title = req.payload.title
                            /\ r.time_minutes = UpdateTimeMinutes

\* C7: a retrieve, PUT, PATCH or DELETE by authenticated user U on a recipe id
\* that names no recipe, or a recipe of another user, is answered 404 with no
\* data, and every recipe stays as it was.
C7_ForeignOrAbsentIs404 ==
    [][(Handled /\ req'.endpoint = "recipes" /\ req'.action \in DetailActions
            /\ req'.user \in Users
            /\ ~\E r \in recipes : r.id = req'.id /\ r.user = req'.user) =>
          /\ res'.status = HTTP_404_NOT_FOUND
          /\ res'.data = <<>>
          /\ DbUnchanged]_vars

C7_Witness ==
    /\ req.endpoint = "recipes"
    /\ req.action = "destroy"
    /\ req.user \in Users
    /\ res.status = HTTP_404_NOT_FOUND
    /\ \E r \in recipes : r.id = req.id /\ r.user # req.user

\* C8: a post to the image-upload endpoint of a recipe the requester owns is
\* answered 400, the image reference unchanged, when the file is not an image,
\* and 200, the image reference set, when it is.
C8_UploadImage ==
    (req.action = "upload_image" /\ req.user \in Users
        /\ \E r \in recipes : r.id = req.id /\ r.user = req.user) =>
        \A r \in {x \in recipes : x.id = req.id} :
            IF req.file = "notimage"
            THEN res.status = HTTP_400_BAD_REQUEST /\ r.image = NoImage
            ELSE res.status = HTTP_200_OK /\ r.image # NoImage

\* C9: every list response is in descending order of its key (name for tags
\* and ingredients, title for recipes), and the stored rows leave one order
\* only for the response, also when two rows have the same key.
KeyOf(e, o) == IF e = "recipes" THEN o.title ELSE o.name

PossibleLists(r) ==
    IF r.endpoint = "recipes" THEN RecipeGetQueryset(r.user, r.params)
    ELSE AttrGetQueryset(r.endpoint, r.user)

C9_ListOrderDetermined ==
    (req.action = "list" /\ res.status = HTTP_200_OK) =>
        /\ \A i \in DOMAIN res.data : i < Len(res.data) =>
              Ord(KeyOf(req.endpoint, res.data[i])) >=
                  Ord(KeyOf(req.endpoint, res.data[i + 1]))
        /\ Cardinality(PossibleLists(req)) = 1

\* C10: over any sequence of requests a tag or ingredient row, once stored,
\* stays stored with the same id, name and owner.
C10_AttrRowsOnlyGrow ==
    [][tags \subseteq tags' /\ ingredients \subseteq ingredients']_vars

C10_Witness ==
    /\ req.endpoint = "tags"
    /\ req.action = "destroy"
    /\ req.user \in Users
    /\ \E t \in tags : t.id = req.id /\ t.user = req.user
    /\ Cardinality(tags) = MaxTags

====
